---- MODULE Spec2Model ----
(***************************************************************************)
(* Job orchestration core of flat-manager (src/jobs.rs): the job store,    *)
(* the claim transaction of process_one_job, handle_job with the commit    *)
(* and publish handlers and their build-state transactions, the            *)
(* JobExecutor actor (one SyncArbiter thread with a FIFO mailbox) and the  *)
(* JobQueue actor (kick, the completion callback, the fallback timer and   *)
(* the stop request).                                                      *)
(***************************************************************************)
EXTENDS Integers, Sequences, FiniteSets, TLC

\* ---------------------------------------------------------------- bounds
NumJobs == 2
NumBuilds == 2
MaxRefs == 2
MaxTimers == 2
MaxCalls == 2
MaxBytes == 2

JobIds == 1..NumJobs
BuildIds == 1..NumBuilds

\* ------------------------------------------------- persisted encodings
\* JobStatus as i16, in the order of the data model.
JobStatus_New == 0
JobStatus_Started == 1
JobStatus_Ended == 2
JobStatus_Broken == 3

\* JobKind as stored in jobs.kind; KindOther stands for a value from_db
\* does not resolve.
JobKind_Commit == 0
JobKind_Publish == 1
KindOther == 2
KindCodes == {JobKind_Commit, JobKind_Publish, KindOther}

JobKind_from_db(k) ==
    CASE k = JobKind_Commit -> "Commit"
      [] k = JobKind_Publish -> "Publish"
      [] OTHER -> "None"

\* jobs.contents: the JSON payload either decodes to a CommitJob/PublishJob
\* naming a build (the build id), or does not decode (any other value).
Contents == {0} \cup BuildIds
from_value(contents) ==
    IF contents \in BuildIds THEN [ok |-> TRUE, build |-> contents]
    ELSE [ok |-> FALSE, build |-> 0]

NoReason == "null"

RepoState_code(tag) ==
    CASE tag = "Verifying" -> 0 [] tag = "Ready" -> 1 [] tag = "Failed" -> 2
RepoState_from_db(val, reason) ==
    CASE val = 0 -> [tag |-> "Verifying", reason |-> NoReason]
      [] val = 1 -> [tag |-> "Ready", reason |-> NoReason]
      [] OTHER -> [tag |-> "Failed", reason |-> reason]
RepoState_to_db(s) ==
    <<RepoState_code(s.tag), IF s.tag = "Failed" THEN s.reason ELSE NoReason>>

PublishedState_code(tag) ==
    CASE tag = "Unpublished" -> 0 [] tag = "Publishing" -> 1
      [] tag = "Published" -> 2 [] tag = "Failed" -> 3
PublishedState_from_db(val, reason) ==
    CASE val = 0 -> [tag |-> "Unpublished", reason |-> NoReason]
      [] val = 1 -> [tag |-> "Publishing", reason |-> NoReason]
      [] val = 2 -> [tag |-> "Published", reason |-> NoReason]
      [] OTHER -> [tag |-> "Failed", reason |-> reason]
PublishedState_to_db(s) ==
    <<PublishedState_code(s.tag), IF s.tag = "Failed" THEN s.reason ELSE NoReason>>

same_state_as(a, b) == a.tag = b.tag

\* ---------------------------------------------------------------- state
VARIABLES
    jobs,            \* jobs table: id -> [kind, contents, status, results]
    deps,            \* job_dependencies: set of <<job_id, dependency_id>>
    builds,          \* builds table: id -> the four state columns
    mailbox,         \* FIFO mailbox of the JobExecutor (SyncArbiter, 1 thread)
    exec,            \* JobExecutor thread: [st, job, pipe]
    reply,           \* ProcessOneJob results on their way back to the sender
    started,         \* Actor::started of the JobQueue has run
    running,         \* JobQueue.running
    processing_job,  \* JobQueue.processing_job
    jobs_queued,     \* JobQueue.jobs_queued
    timers,          \* run_later closures scheduled and not yet fired
    stop,            \* progress of the StopJobQueue request
    handed,          \* id -> number of times the claim transaction returned it
    pipeline,        \* a handler's pipeline followed command by command
    cmd              \* one run_command call: child, reader threads, collector

store == <<jobs, deps, builds>>
queue == <<started, running, processing_job, jobs_queued, timers, stop>>
sub == <<pipeline, cmd>>
vars == <<jobs, deps, builds, mailbox, exec, reply, started, running,
          processing_job, jobs_queued, timers, stop, handed, pipeline, cmd>>

ProcessOneJob == "ProcessOneJob"
StopJobs == "StopJobs"

Ok(v) == [ok |-> TRUE, val |-> v]
Err(m) == [ok |-> FALSE, val |-> m]

\* The executor thread: idle, or in process_one_job with the claimed job
\* ("claimed": handle_job entered; "piped": the pipeline part of the handler
\* has returned pipe, the build transaction and the job update are still to
\* come), or stopped.  pipe.early: the handler returned before its pipeline.
NoPipe == [early |-> FALSE, res |-> Err("none")]
Idle == [st |-> "idle", job |-> 0, pipe |-> NoPipe]
Stopped == [st |-> "stopped", job |-> 0, pipe |-> NoPipe]
Claimed(j) == [st |-> "claimed", job |-> j, pipe |-> NoPipe]
Piped(j, p) == [st |-> "piped", job |-> j, pipe |-> p]

NoResults == "null"

\* Dependency graphs: a job depends only on jobs created before it.
DepEdges == {e \in JobIds \X JobIds : e[2] < e[1]}

\* The rows the API layer has inserted.  A build is waiting either for its
\* commit job or for its publish job.
InitBuildRows ==
    { [repo_state |-> RepoState_code("Verifying"), repo_state_reason |-> NoReason,
       published_state |-> PublishedState_code("Unpublished"),
       published_state_reason |-> NoReason],
      [repo_state |-> RepoState_code("Ready"), repo_state_reason |-> NoReason,
       published_state |-> PublishedState_code("Publishing"),
       published_state_reason |-> NoReason] }

\* Every job is New with empty results.  The plain job is a commit job of
\* build 1; at most one job of the table is of another kind or has other
\* contents.
NewJobRows == [kind : KindCodes, contents : Contents,
               status : {JobStatus_New}, results : {NoResults}]
PlainJob == [kind |-> JobKind_Commit, contents |-> 1,
             status |-> JobStatus_New, results |-> NoResults]

InitExecutor ==
    /\ mailbox = <<>>
    /\ exec = Idle
    /\ reply = <<>>
    /\ handed = [j \in JobIds |-> 0]

\* start_job_executor: the JobQueue as constructed, before started() runs.
InitQueue ==
    /\ started = FALSE
    /\ running = TRUE
    /\ processing_job = FALSE
    /\ jobs_queued = FALSE
    /\ timers = 0
    /\ stop = "none"

\* No pipeline and no command is followed step by step.
NoPipeline == [pc |-> "none"]
NoCommand == [pc |-> "none"]
InitSub ==
    /\ pipeline = NoPipeline
    /\ cmd = NoCommand

Init ==
    /\ jobs \in [JobIds -> NewJobRows]
    /\ Cardinality({j \in JobIds : jobs[j] # PlainJob}) <= 1
    /\ deps \in SUBSET DepEdges
    /\ builds \in [BuildIds -> InitBuildRows]
    /\ InitExecutor
    /\ InitQueue
    /\ InitSub

\* ------------------------------------------------------------ scheduler
\* The view job_dependencies_with_status: one row per dependency edge,
\* carrying the status of the job depended upon.
job_dependencies_with_status ==
    {[job_id |-> e[1], dependant_status |-> jobs[e[2]].status] : e \in deps}

\* The filter without its anti-join on the dependency view.
claimable_ignoring_deps(j) == jobs[j].status = JobStatus_New

\* The filter with the threshold of the anti-join one status too high.
claimable_le_ended(j) ==
    /\ jobs[j].status = JobStatus_New
    /\ ~ \E e \in deps : e[1] = j /\ jobs[e[2]].status <= JobStatus_Ended

\* The filter of the claim query: status New and no dependency row with
\* dependant_status <= Started.
claimable(j) ==
    /\ jobs[j].status = JobStatus_New
    /\ ~ \E d \in job_dependencies_with_status :
            /\ d.job_id = j
            /\ d.dependant_status <= JobStatus_Started

\* The claim transaction without its update.
set_started_lost(j) == jobs

\* The update of the claim transaction.
set_started(j) == [jobs EXCEPT ![j].status = JobStatus_Started]

\* The rows get_result may return from the claim query (any matching row:
\* the query has no order); NotFound when no row matches.
NotFound == 0
claim_query ==
    IF \E j \in JobIds : claimable(j)
    THEN {j \in JobIds : claimable(j)}
    ELSE {NotFound}

\* ------------------------------------------------------------- handlers
DbError == "database error"
RollbackTransaction == "RollbackTransaction"

\* What the outside world decides while a handler runs: the build_refs
\* query (refs < 0: an error, otherwise the number of refs) and whether the
\* external commands of the pipeline succeed.
PipeInputs == [refs : (-1)..MaxRefs, out : BOOLEAN]
\* ... and afterwards: which statement of the build transaction fails, and
\* whether the final update of the job row succeeds.
TxFaults == {"none", "read", "write"}

do_commit_build_refs(out) ==
    IF out THEN Ok("refs") ELSE Err("Failed to build commit for ref")

do_publish(out) ==
    IF out THEN Ok("{}") ELSE Err("Failed to publish repo")

\* handle_commit_job up to the result of its pipeline.
commit_load_and_run(in) ==
    IF in.refs < 0 THEN [early |-> TRUE, res |-> Err("Can't load build refs")]
    ELSE IF in.refs = 0 THEN [early |-> TRUE, res |-> Err("No refs in build")]
    ELSE [early |-> FALSE, res |-> do_commit_build_refs(in.out)]

\* handle_publish_job up to the result of its pipeline.
publish_load_and_run(in) ==
    IF in.refs < 0 THEN [early |-> TRUE, res |-> Err("Can't load build refs")]
    ELSE IF in.refs = 0 THEN [early |-> TRUE, res |-> Err("No refs in build")]
    ELSE [early |-> FALSE, res |-> do_publish(in.out)]

\* The match with an unresolved kind falling into the commit arm.
dispatch_unknown_as_commit(job, in) ==
    LET kind == JobKind_from_db(job.kind)
        payload == from_value(job.contents)
    IN CASE kind = "Publish" ->
              IF payload.ok THEN publish_load_and_run(in)
              ELSE [early |-> TRUE, res |-> Err("Can't parse publish job")]
         [] OTHER ->
              IF payload.ok THEN commit_load_and_run(in)
              ELSE [early |-> TRUE, res |-> Err("Can't parse commit job")]

\* The match on the job kind in handle_job, up to the pipeline's result.
dispatch(job, in) ==
    LET kind == JobKind_from_db(job.kind)
        payload == from_value(job.contents)
    IN CASE kind = "Commit" ->
              IF payload.ok THEN commit_load_and_run(in)
              ELSE [early |-> TRUE, res |-> Err("Can't parse commit job")]
         [] kind = "Publish" ->
              IF payload.ok THEN publish_load_and_run(in)
              ELSE [early |-> TRUE, res |-> Err("Can't parse publish job")]
         [] OTHER -> [early |-> TRUE, res |-> Err("Unknown job type")]

\* The transaction without the test of the current state.
commit_state_tx_unchecked(b, bs, new_repo_state, fault) ==
    IF fault # "none" THEN [res |-> Err(DbError), builds |-> bs]
    ELSE LET db == RepoState_to_db(new_repo_state)
         IN [res |-> Ok("build"),
             builds |-> [bs EXCEPT ![b].repo_state = db[1],
                                   ![b].repo_state_reason = db[2]]]

\* The transaction with an update that has lost its filter on the build id:
\* it writes every row of the builds table.
commit_state_tx_without_filter(b, bs, new_repo_state, fault) ==
    IF fault = "read" THEN [res |-> Err(DbError), builds |-> bs]
    ELSE LET current_repo_state ==
                 RepoState_from_db(bs[b].repo_state, bs[b].repo_state_reason)
         IN IF ~same_state_as(current_repo_state,
                              [tag |-> "Verifying", reason |-> NoReason])
            THEN [res |-> Err(RollbackTransaction), builds |-> bs]
            ELSE IF fault = "write" THEN [res |-> Err(DbError), builds |-> bs]
            ELSE LET db == RepoState_to_db(new_repo_state)
                 IN [res |-> Ok("build"),
                     builds |-> [r \in BuildIds |->
                                   [bs[r] EXCEPT !.repo_state = db[1],
                                                 !.repo_state_reason = db[2]]]]

\* The build-state transaction of handle_commit_job: [res, builds].
commit_state_tx(b, bs, new_repo_state, fault) ==
    IF fault = "read" THEN [res |-> Err(DbError), builds |-> bs]
    ELSE LET current_repo_state ==
                 RepoState_from_db(bs[b].repo_state, bs[b].repo_state_reason)
         IN IF ~same_state_as(current_repo_state,
                              [tag |-> "Verifying", reason |-> NoReason])
            THEN [res |-> Err(RollbackTransaction), builds |-> bs]
            ELSE IF fault = "write" THEN [res |-> Err(DbError), builds |-> bs]
            ELSE LET db == RepoState_to_db(new_repo_state)
                 IN [res |-> Ok("build"),
                     builds |-> [bs EXCEPT ![b].repo_state = db[1],
                                           ![b].repo_state_reason = db[2]]]

\* The handler returning its pipeline's result whatever the transaction did.
commit_finish_keeping_res(b, bs, res, fault) ==
    LET new_repo_state ==
            IF res.ok THEN [tag |-> "Ready", reason |-> NoReason]
            ELSE [tag |-> "Failed", reason |-> res.val]
        tx == commit_state_tx(b, bs, new_repo_state, fault)
    IN [res |-> res, builds |-> tx.builds]

\* handle_commit_job from the pipeline's result res on: [res, builds].
commit_finish(b, bs, res, fault) ==
    LET new_repo_state ==
            IF res.ok THEN [tag |-> "Ready", reason |-> NoReason]
            ELSE [tag |-> "Failed", reason |-> res.val]
        tx == commit_state_tx(b, bs, new_repo_state, fault)
    IN IF tx.res.ok THEN [res |-> res, builds |-> tx.builds]
       ELSE [res |-> tx.res, builds |-> tx.builds]

\* The build-state transaction of handle_publish_job: [res, builds].
publish_state_tx(b, bs, new_published_state, fault) ==
    IF fault = "read" THEN [res |-> Err(DbError), builds |-> bs]
    ELSE LET current_published_state ==
                 PublishedState_from_db(bs[b].published_state,
                                        bs[b].published_state_reason)
         IN IF ~same_state_as(current_published_state,
                              [tag |-> "Publishing", reason |-> NoReason])
            THEN [res |-> Err(RollbackTransaction), builds |-> bs]
            ELSE IF fault = "write" THEN [res |-> Err(DbError), builds |-> bs]
            ELSE LET db == PublishedState_to_db(new_published_state)
                 IN [res |-> Ok("build"),
                     builds |-> [bs EXCEPT ![b].published_state = db[1],
                                           ![b].published_state_reason = db[2]]]

\* handle_publish_job from the pipeline's result res on: [res, builds].
publish_finish(b, bs, res, fault) ==
    LET new_published_state ==
            IF res.ok THEN [tag |-> "Published", reason |-> NoReason]
            ELSE [tag |-> "Failed", reason |-> res.val]
        tx == publish_state_tx(b, bs, new_published_state, fault)
    IN IF tx.res.ok THEN [res |-> res, builds |-> tx.builds]
       ELSE [res |-> tx.res, builds |-> tx.builds]

\* handler_res of handle_job, given what the pipeline part returned.
handler_res(job, bs, pipe, fault) ==
    IF pipe.early THEN [res |-> pipe.res, builds |-> bs]
    ELSE IF JobKind_from_db(job.kind) = "Commit"
    THEN commit_finish(from_value(job.contents).build, bs, pipe.res, fault)
    ELSE publish_finish(from_value(job.contents).build, bs, pipe.res, fault)

\* The final update writing the status column alone.
job_update_without_results(j, res, upd) ==
    IF ~upd THEN jobs
    ELSE [jobs EXCEPT ![j].status = IF res.ok THEN JobStatus_Ended
                                     ELSE JobStatus_Broken]

\* The final update of the job row in handle_job.
job_update(j, res, upd) ==
    IF ~upd THEN jobs
    ELSE [jobs EXCEPT ![j].status = IF res.ok THEN JobStatus_Ended
                                     ELSE JobStatus_Broken,
                      ![j].results = res.val]

\* --------------------------------------------------------- JobExecutor
\* The match reporting every outcome of the claim as a processed job.
process_one_job_match_always_true(new_job) == "true"

\* The match on new_job at the end of process_one_job: what the call
\* returns for Ok(job), Err(NotFound) and any other Err.
process_one_job_match(new_job) ==
    CASE new_job = "Ok" -> "true"
      [] new_job = "NotFound" -> "false"
      [] OTHER -> "false"

\* Handler<ProcessOneJob> up to the end of the claim transaction: take the
\* request from the mailbox, get a pooled connection and run the claim
\* transaction of process_one_job.  Without a job the call returns.
ExecProcessOneJob ==
    /\ exec.st = "idle"
    /\ mailbox # <<>>
    /\ Head(mailbox) = ProcessOneJob
    /\ mailbox' = Tail(mailbox)
    /\ \E pool_ok \in BOOLEAN, db_ok \in BOOLEAN :
          IF ~pool_ok
          THEN /\ reply' = Append(reply, "err")
               /\ UNCHANGED <<jobs, exec, handed>>
          ELSE IF ~db_ok
          THEN /\ reply' = Append(reply, process_one_job_match("Err"))
               /\ UNCHANGED <<jobs, exec, handed>>
          ELSE \E j \in claim_query :
                  IF j = NotFound
                  THEN /\ reply' = Append(reply, process_one_job_match("NotFound"))
                       /\ UNCHANGED <<jobs, exec, handed>>
                  ELSE /\ jobs' = set_started(j)
                       /\ exec' = Claimed(j)
                       /\ handed' = [handed EXCEPT ![j] = IF @ < 2 THEN @ + 1 ELSE @]
                       /\ UNCHANGED reply
    /\ UNCHANGED <<deps, builds, queue, sub>>

\* handle_job on the claimed job, up to the return of its pipeline.  The
\* handler works on the row the claim transaction returned.
ExecRunPipeline ==
    /\ exec.st = "claimed"
    /\ \E in \in PipeInputs :
          exec' = Piped(exec.job, dispatch(jobs[exec.job], in))
    /\ UNCHANGED <<store, mailbox, reply, queue, handed, sub>>

\* The rest of handle_job: the build transaction and the update of the job
\* row; then process_one_job returns true.
ExecFinishJob ==
    /\ exec.st = "piped"
    /\ \E fault \in TxFaults, upd \in BOOLEAN :
          LET j == exec.job
              h == handler_res(jobs[j], builds, exec.pipe, fault)
          IN /\ builds' = h.builds
             /\ jobs' = job_update(j, h.res, upd)
    /\ exec' = Idle
    /\ reply' = Append(reply, process_one_job_match("Ok"))
    /\ UNCHANGED <<deps, mailbox, queue, handed, sub>>

\* Handler<StopJobs>: ctx.stop() ends the executor thread.
ExecStopJobs ==
    /\ exec.st = "idle"
    /\ mailbox # <<>>
    /\ Head(mailbox) = StopJobs
    /\ mailbox' = Tail(mailbox)
    /\ exec' = Stopped
    /\ stop' = "replied"
    /\ UNCHANGED <<store, reply, started, running, processing_job, jobs_queued,
                   timers, handed, sub>>

\* ------------------------------------------------------------ JobQueue
\* kick without the test of processing_job.
kick_always_sends(pj) ==
    IF ~running
    THEN /\ processing_job' = pj
         /\ UNCHANGED <<jobs_queued, mailbox>>
    ELSE /\ processing_job' = TRUE
         /\ jobs_queued' = FALSE
         /\ mailbox' = Append(mailbox, ProcessOneJob)

\* kick without the test of running.
kick_ignoring_running(pj) ==
    IF pj
    THEN /\ jobs_queued' = TRUE
         /\ processing_job' = pj
         /\ UNCHANGED mailbox
    ELSE /\ processing_job' = TRUE
         /\ jobs_queued' = FALSE
         /\ mailbox' = Append(mailbox, ProcessOneJob)

\* JobQueue::kick, entered with processing_job = pj.
kick(pj) ==
    IF ~running
    THEN /\ processing_job' = pj
         /\ UNCHANGED <<jobs_queued, mailbox>>
    ELSE IF pj
    THEN /\ jobs_queued' = TRUE
         /\ processing_job' = pj
         /\ UNCHANGED mailbox
    ELSE /\ processing_job' = TRUE
         /\ jobs_queued' = FALSE
         /\ mailbox' = Append(mailbox, ProcessOneJob)

\* Actor::started.
Started ==
    /\ ~started
    /\ started' = TRUE
    /\ kick(processing_job)
    /\ UNCHANGED <<store, exec, reply, running, timers, stop, handed, sub>>

\* Handler<ProcessJobs>: a trigger from the API layer.
HandleProcessJobs ==
    /\ started
    /\ timers < MaxTimers
    /\ kick(processing_job)
    /\ UNCHANGED <<store, exec, reply, started, running, timers, stop, handed, sub>>

\* The closure given to run_later fires.
TimerFires ==
    /\ timers > 0
    /\ timers' = timers - 1
    /\ kick(processing_job)
    /\ UNCHANGED <<store, exec, reply, started, running, stop, handed, sub>>

\* The match on the result of the ProcessOneJob request.
processed_job(result) == result = "true"

\* The callback kicking again only after a processed job.
then_callback_ignoring_queued(result) ==
    IF running
    THEN IF processed_job(result)
         THEN /\ kick(FALSE)
              /\ UNCHANGED timers
         ELSE /\ processing_job' = FALSE
              /\ timers' = timers + 1
              /\ UNCHANGED <<jobs_queued, mailbox>>
    ELSE /\ processing_job' = FALSE
         /\ UNCHANGED <<jobs_queued, mailbox, timers>>

\* The callback scheduling no run_later after a call without a job.
then_callback_without_fallback(result) ==
    IF running
    THEN IF jobs_queued \/ processed_job(result)
         THEN /\ kick(FALSE)
              /\ UNCHANGED timers
         ELSE /\ processing_job' = FALSE
              /\ UNCHANGED <<jobs_queued, mailbox, timers>>
    ELSE /\ processing_job' = FALSE
         /\ UNCHANGED <<jobs_queued, mailbox, timers>>

\* The callback chained to the ProcessOneJob request.
then_callback(result) ==
    IF running
    THEN IF jobs_queued \/ processed_job(result)
         THEN /\ kick(FALSE)
              /\ UNCHANGED timers
         ELSE /\ processing_job' = FALSE
              /\ timers' = timers + 1
              /\ UNCHANGED <<jobs_queued, mailbox>>
    ELSE /\ processing_job' = FALSE
         /\ UNCHANGED <<jobs_queued, mailbox, timers>>

Completion ==
    /\ started
    /\ reply # <<>>
    /\ reply' = Tail(reply)
    /\ then_callback(Head(reply))
    /\ UNCHANGED <<store, exec, started, running, stop, handed, sub>>

\* Handler<StopJobQueue>: running becomes false and StopJobs is sent.
HandleStopJobQueue ==
    /\ started
    /\ stop = "none"
    /\ running' = FALSE
    /\ mailbox' = Append(mailbox, StopJobs)
    /\ stop' = "sent"
    /\ UNCHANGED <<store, exec, reply, started, processing_job, jobs_queued,
                   timers, handed, sub>>

\* The StopJobs reply arrives: the StopJobQueue request completes.
StopCompletes ==
    /\ stop = "replied"
    /\ stop' = "done"
    /\ UNCHANGED <<store, mailbox, exec, reply, started, running, processing_job,
                   jobs_queued, timers, handed, sub>>

\* The program: the JobQueue, the JobExecutor and the store.  Its jobs are
\* plain jobs.
QueueInit ==
    /\ Init
    /\ \A j \in JobIds : jobs[j] = PlainJob

QueueNext ==
    \/ Started
    \/ HandleProcessJobs
    \/ TimerFires
    \/ Completion
    \/ HandleStopJobQueue
    \/ StopCompletes
    \/ ExecProcessOneJob
    \/ ExecRunPipeline
    \/ ExecFinishJob
    \/ ExecStopJobs

SpecQueue == QueueInit /\ [][QueueNext]_vars

\* The claim transaction commits.
ClaimCommits == ExecProcessOneJob /\ jobs' # jobs

\* The actors are scheduled: the JobQueue starts, handles the replies it
\* is sent and its run_later closures fire; the executor thread handles
\* its mailbox and carries a handler through; the database does not fail
\* every claim transaction for ever.  No trigger and no stop request has to
\* arrive.
SpecQueueFair ==
    /\ SpecQueue
    /\ WF_vars(Started)
    /\ WF_vars(TimerFires)
    /\ WF_vars(Completion)
    /\ WF_vars(ExecProcessOneJob)
    /\ WF_vars(ExecRunPipeline)
    /\ WF_vars(ExecFinishJob)
    /\ SF_vars(ClaimCommits)

\* ------------------------------------------------------------- callers
\* The JobExecutor and the store under any sequence of ProcessOneJob
\* requests, with any job table.
Outstanding ==
    Len(mailbox) + Len(reply) + (IF exec.st \in {"claimed", "piped"} THEN 1 ELSE 0)

\* A request is sent when no other is outstanding, as the JobQueue does.
Call ==
    /\ ~started
    /\ Outstanding = 0
    /\ mailbox' = Append(mailbox, ProcessOneJob)
    /\ UNCHANGED <<store, exec, reply, queue, handed, sub>>

\* The sender takes the result.
Return ==
    /\ ~started
    /\ reply # <<>>
    /\ reply' = Tail(reply)
    /\ UNCHANGED <<store, mailbox, exec, queue, handed, sub>>

Next ==
    \/ Call
    \/ Return
    \/ ExecProcessOneJob
    \/ ExecRunPipeline
    \/ ExecFinishJob

Spec == Init /\ [][Next]_vars

\* The sender keeps calling and the executor thread runs: requests are
\* handled and a claimed job's handler is carried through (every external
\* command terminates).
SpecFair ==
    /\ Spec
    /\ WF_vars(Call)
    /\ WF_vars(Return)
    /\ WF_vars(ExecProcessOneJob)
    /\ WF_vars(ExecRunPipeline)
    /\ WF_vars(ExecFinishJob)

\* Several senders: up to MaxCalls requests outstanding at a time, on a
\* table of plain jobs.
CallConcurrently ==
    /\ ~started
    /\ Outstanding < MaxCalls
    /\ mailbox' = Append(mailbox, ProcessOneJob)
    /\ UNCHANGED <<store, exec, reply, queue, handed, sub>>

CallersNext ==
    \/ CallConcurrently
    \/ Return
    \/ ExecProcessOneJob
    \/ ExecRunPipeline
    \/ ExecFinishJob

SpecCallers == QueueInit /\ [][CallersNext]_vars

\* ------------------------------------------------------------ pipelines
\* handle_commit_job and handle_publish_job followed command by command.
\* The ref names a build may carry: an app ref, a runtime ref and an app
\* ref with fewer than four components.
RefNames == {"app/a/x/m", "runtime/r/x/m", "app/b"}
starts_with_app(name) == name \in {"app/a/x/m", "app/b"}
num_parts(name) == IF name = "app/b" THEN 2 ELSE 4

\* The build_refs rows of the build, in the order the query returns them.
RefLists == UNION {[1..n -> RefNames] : n \in 0..MaxRefs}

\* What run_command returns: Ok((true, ..)), Ok((false, ..)), or the Err of
\* a child that could not be spawned or waited for.
RunResults == {"ok", "nonzero", "start_err", "wait_err"}
CantStart == "Can't start command"
CantWait == "Can't wait for command"
IoError == "io error"
run_error(out) == IF out = "start_err" THEN CantStart ELSE CantWait

commit_failed(name) ==
    CASE name = "app/a/x/m" -> "Failed to build commit for ref app/a/x/m: stderr"
      [] name = "runtime/r/x/m" -> "Failed to build commit for ref runtime/r/x/m: stderr"
      [] OTHER -> "Failed to build commit for ref app/b: stderr"
cant_find_commit(name) ==
    CASE name = "app/a/x/m" -> "Can't find commit for ref app/a/x/m build refs: stderr"
      [] name = "runtime/r/x/m" -> "Can't find commit for ref runtime/r/x/m build refs: stderr"
      [] OTHER -> "Can't find commit for ref app/b build refs: stderr"

NoCommits == [n \in {} |-> 0]
StartPipeline(kind, b, refs) ==
    [pc |-> "load", kind |-> kind, build |-> b, refs |-> refs, i |-> 0,
     commits |-> NoCommits,   \* the HashMap commits
     repo |-> NoCommits,      \* build repo: ref -> id of its commit
     made |-> 0,              \* commits made in the build repo so far
     files |-> {},            \* refs whose .flatpakref file exists
     upload |-> TRUE,         \* the upload directory exists
     steps |-> <<>>,          \* the external commands attempted, in order
     fail |-> "none",         \* the step that returned the error
     res |-> Err("none")]

Log(p, c, name, out) ==
    Append(p.steps, [cmd |-> c, ref |-> name, at |-> p.i, out |-> out])

\* An error leaves do_commit_build_refs / do_publish: the handler goes on
\* to its build-state transaction.
Fail(p, step, msg) ==
    [p EXCEPT !.pc = "state_tx", !.fail = step, !.res = Err(msg)]

\* The build_refs query at the head of both handlers.
load_build_refs(p, db_ok) ==
    IF ~db_ok
    THEN [p EXCEPT !.pc = "returned", !.fail = "load",
                   !.res = Err("Can't load build refs")]
    ELSE IF Len(p.refs) = 0
    THEN [p EXCEPT !.pc = "returned", !.fail = "load",
                   !.res = Err("No refs in build")]
    ELSE [p EXCEPT !.pc = IF p.kind = "Commit" THEN "init_repo"
                          ELSE "publish_import"]

\* The two init_ostree_repo calls; the second creates the upload directory
\* if it is missing.
init_repos(p, ok) ==
    IF ~ok THEN Fail(p, "init_repo", IoError)
    ELSE [p EXCEPT !.pc = "commit_from", !.i = 1, !.upload = TRUE]

\* The loop running build-update-repo after every ref.
next_ref_updating_each(p) ==
    [p EXCEPT !.pc = "update_repo"]

\* The end of one iteration of the loop over build_refs.
next_ref(p) ==
    IF p.i < Len(p.refs)
    THEN [p EXCEPT !.pc = "commit_from", !.i = p.i + 1]
    ELSE [p EXCEPT !.pc = "update_repo", !.i = p.i + 1]

\* The build repo after a build-commit-from of the ref: a new commit.
committed(p, name) ==
    [n \in DOMAIN p.repo \cup {name} |-> IF n = name THEN p.made + 1 ELSE p.repo[n]]

\* The loop going on to the commit id after an unsuccessful exit.
commit_from_step_ignoring_failure(p, out, made) ==
    LET name == p.refs[p.i]
        logged == Log(p, "build-commit-from", name, out)
    IN CASE out = "start_err" ->
              Fail([p EXCEPT !.steps = logged], "commit_from", CantStart)
         [] out = "wait_err" ->
              Fail([p EXCEPT !.steps = logged], "commit_from", CantWait)
         [] OTHER ->
              [p EXCEPT !.pc = "rev_parse", !.steps = logged,
                        !.made = p.made + 1, !.repo = committed(p, name)]

\* flatpak build-commit-from for the ref at position i, through run_command.
\* made: whether a child that could not be waited for made its commit.
commit_from_step(p, out, made) ==
    LET name == p.refs[p.i]
        logged == Log(p, "build-commit-from", name, out)
    IN CASE out = "start_err" ->
              Fail([p EXCEPT !.steps = logged], "commit_from", CantStart)
         [] out = "wait_err" ->
              IF made
              THEN Fail([p EXCEPT !.steps = logged, !.made = p.made + 1,
                                  !.repo = committed(p, name)],
                        "commit_from", CantWait)
              ELSE Fail([p EXCEPT !.steps = logged], "commit_from", CantWait)
         [] out = "nonzero" ->
              Fail([p EXCEPT !.steps = logged], "commit_from", commit_failed(name))
         [] OTHER ->
              [p EXCEPT !.pc = "rev_parse", !.steps = logged,
                        !.made = p.made + 1, !.repo = committed(p, name)]

\* parse_ostree_ref: ostree rev-parse of the ref in the build repo.
rev_parse_step(p, ok) ==
    LET name == p.refs[p.i]
    IN IF ~ok \/ name \notin DOMAIN p.repo
       THEN Fail([p EXCEPT !.steps = Log(p, "rev-parse", name, "nonzero")],
                 "rev_parse", cant_find_commit(name))
       ELSE LET q == [p EXCEPT !.steps = Log(p, "rev-parse", name, "ok"),
                               !.commits = [n \in DOMAIN p.commits \cup {name} |->
                                               IF n = name THEN p.repo[name]
                                               ELSE p.commits[n]]]
            IN IF starts_with_app(name) THEN [q EXCEPT !.pc = "flatpakref"]
               ELSE next_ref(q)

\* The .flatpakref file of an app ref: File::create, then the contents
\* formatted from parts[1] and parts[3], then write_all.
FileResults == {"ok", "create_err", "write_err"}
flatpakref_step(p, out) ==
    LET name == p.refs[p.i]
        created == [p EXCEPT !.files = p.files \cup {name}]
    IN IF out = "create_err" THEN Fail(p, "flatpakref", IoError)
       ELSE IF num_parts(name) < 4 THEN [created EXCEPT !.pc = "panicked"]
       ELSE IF out = "write_err" THEN Fail(created, "flatpakref", IoError)
       ELSE next_ref(created)

\* flatpak build-update-repo on the build repo.
update_repo_step(p, out) ==
    LET logged == [p EXCEPT !.steps = Log(p, "build-update-repo", "", out)]
    IN CASE out = "start_err" -> Fail(logged, "update_repo", CantStart)
         [] out = "wait_err" -> Fail(logged, "update_repo", CantWait)
         [] out = "nonzero" -> Fail(logged, "update_repo", "Failed to updaterepo: stderr")
         [] OTHER -> [logged EXCEPT !.pc = "remove_upload"]

\* fs::remove_dir_all of the upload directory, then Ok({"refs": commits}).
remove_upload_step(p, ok) ==
    IF ~ok
    THEN Fail([p EXCEPT !.steps = Log(p, "remove-upload", "", "nonzero")],
              "remove_upload", IoError)
    ELSE [p EXCEPT !.pc = "state_tx", !.upload = FALSE,
                   !.steps = Log(p, "remove-upload", "", "ok"), !.res = Ok("refs")]

\* do_publish going on to the summary after an unsuccessful import.
publish_import_step_ignoring_failure(p, out) ==
    LET logged == [p EXCEPT !.steps = Log(p, "build-commit-from", "", out)]
    IN CASE out = "start_err" -> Fail(logged, "publish_import", CantStart)
         [] out = "wait_err" -> Fail(logged, "publish_import", CantWait)
         [] OTHER -> [logged EXCEPT !.pc = "publish_update"]

\* do_publish: flatpak build-commit-from into the production repo.
publish_import_step(p, out) ==
    LET logged == [p EXCEPT !.steps = Log(p, "build-commit-from", "", out)]
    IN CASE out = "start_err" -> Fail(logged, "publish_import", CantStart)
         [] out = "wait_err" -> Fail(logged, "publish_import", CantWait)
         [] out = "nonzero" -> Fail(logged, "publish_import", "Failed to publish repo: stderr")
         [] OTHER -> [logged EXCEPT !.pc = "publish_update"]

\* do_publish: flatpak build-update-repo --generate-static-deltas.
publish_update_step(p, out) ==
    LET logged == [p EXCEPT !.steps =
                      Log(p, "build-update-repo --generate-static-deltas", "", out)]
    IN CASE out = "start_err" -> Fail(logged, "publish_update", CantStart)
         [] out = "wait_err" -> Fail(logged, "publish_update", CantWait)
         [] out = "nonzero" -> Fail(logged, "publish_update", "Failed to update repo: stderr")
         [] OTHER -> [logged EXCEPT !.pc = "state_tx", !.res = Ok("{}")]

PipelineFrame ==
    UNCHANGED <<jobs, deps, mailbox, exec, reply, queue, handed, cmd>>

LoadBuildRefs ==
    /\ pipeline.pc = "load"
    /\ \E db_ok \in BOOLEAN : pipeline' = load_build_refs(pipeline, db_ok)
    /\ UNCHANGED builds
    /\ PipelineFrame

InitRepos ==
    /\ pipeline.pc = "init_repo"
    /\ \E ok \in BOOLEAN : pipeline' = init_repos(pipeline, ok)
    /\ UNCHANGED builds
    /\ PipelineFrame

CommitFrom ==
    /\ pipeline.pc = "commit_from"
    /\ \E out \in RunResults, made \in BOOLEAN :
          pipeline' = commit_from_step(pipeline, out, made)
    /\ UNCHANGED builds
    /\ PipelineFrame

RevParse ==
    /\ pipeline.pc = "rev_parse"
    /\ \E ok \in BOOLEAN : pipeline' = rev_parse_step(pipeline, ok)
    /\ UNCHANGED builds
    /\ PipelineFrame

WriteFlatpakref ==
    /\ pipeline.pc = "flatpakref"
    /\ \E out \in FileResults : pipeline' = flatpakref_step(pipeline, out)
    /\ UNCHANGED builds
    /\ PipelineFrame

UpdateRepo ==
    /\ pipeline.pc = "update_repo"
    /\ \E out \in RunResults : pipeline' = update_repo_step(pipeline, out)
    /\ UNCHANGED builds
    /\ PipelineFrame

RemoveUpload ==
    /\ pipeline.pc = "remove_upload"
    /\ \E ok \in BOOLEAN : pipeline' = remove_upload_step(pipeline, ok)
    /\ UNCHANGED builds
    /\ PipelineFrame

PublishImport ==
    /\ pipeline.pc = "publish_import"
    /\ \E out \in RunResults : pipeline' = publish_import_step(pipeline, out)
    /\ UNCHANGED builds
    /\ PipelineFrame

PublishUpdate ==
    /\ pipeline.pc = "publish_update"
    /\ \E out \in RunResults : pipeline' = publish_update_step(pipeline, out)
    /\ UNCHANGED builds
    /\ PipelineFrame

\* The build-state transaction of the handler and its return.
StateTx ==
    /\ pipeline.pc = "state_tx"
    /\ \E fault \in TxFaults :
          LET h == IF pipeline.kind = "Commit"
                   THEN commit_finish(pipeline.build, builds, pipeline.res, fault)
                   ELSE publish_finish(pipeline.build, builds, pipeline.res, fault)
          IN /\ builds' = h.builds
             /\ pipeline' = [pipeline EXCEPT !.pc = "returned", !.res = h.res]
    /\ PipelineFrame

PipelineInit ==
    /\ jobs = [j \in JobIds |-> PlainJob]
    /\ deps = {}
    /\ builds \in [BuildIds -> InitBuildRows]
    /\ InitExecutor
    /\ InitQueue
    /\ cmd = NoCommand
    /\ \E kind \in {"Commit", "Publish"}, b \in BuildIds, refs \in RefLists :
          pipeline = StartPipeline(kind, b, refs)

PipelineNext ==
    \/ LoadBuildRefs
    \/ InitRepos
    \/ CommitFrom
    \/ RevParse
    \/ WriteFlatpakref
    \/ UpdateRepo
    \/ RemoveUpload
    \/ PublishImport
    \/ PublishUpdate
    \/ StateTx

SpecPipeline == PipelineInit /\ [][PipelineNext]_vars

\* ---------------------------------------------------------- run_command
\* One call of run_command: the child's two output streams, the reader
\* threads running send_reads, the channel and the collector loop.
\* A byte is ASCII "a" or 0xFF, which occurs in no UTF-8 encoding.
Bytes == {"a", "FF"}
ByteSeqs == UNION {[1..n -> Bytes] : n \in 0..MaxBytes}
BufferSize == 4096
Replacement == "U+FFFD"

\* String::from_utf8_lossy on these bytes: a string as its sequence of
\* characters, every invalid byte replaced by U+FFFD.
from_utf8_lossy(bytes) ==
    [k \in 1..Len(bytes) |-> IF bytes[k] = "FF" THEN Replacement ELSE bytes[k]]

\* The UTF-8 bytes of a string.
RECURSIVE as_bytes(_)
as_bytes(str) ==
    IF str = <<>> THEN <<>>
    ELSE (IF Head(str) = Replacement THEN <<"EF", "BF", "BD">> ELSE <<Head(str)>>)
         \o as_bytes(Tail(str))

Data(source, v) == [tag |-> "Data", source |-> source, data |-> v]
Closed(source) == [tag |-> "Closed", source |-> source, data |-> <<>>]

StartCommand(out, err) ==
    [pc |-> "spawn",
     wrote_out |-> out, wrote_err |-> err, \* all bytes the child writes
     out |-> out, err |-> err,          \* those of them not yet read
     t_out |-> "none", t_err |-> "none", \* stdout_thread, stderr_thread
     chan |-> <<>>,                     \* events sent and not yet received
     sent |-> <<>>,                     \* every event sent, in order
     remaining |-> 2, log |-> <<>>, stderr |-> <<>>,
     res |-> Err("none")]

\* sender.send(..)
send(c, ev) == [c EXCEPT !.chan = Append(c.chan, ev), !.sent = Append(c.sent, ev)]

\* send_reads returning on a read error without sending Closed.
send_reads_step_silent_on_error(c, source, outcome, n) ==
    LET stream == IF source = "Stdout" THEN c.out ELSE c.err
        done == IF source = "Stdout" THEN [c EXCEPT !.t_out = "done"]
                ELSE [c EXCEPT !.t_err = "done"]
    IN CASE outcome = "err" -> done
         [] outcome = "eof" -> send(done, Closed(source))
         [] OTHER ->
              LET taken == IF source = "Stdout"
                           THEN [c EXCEPT !.out = SubSeq(stream, n + 1, Len(stream))]
                           ELSE [c EXCEPT !.err = SubSeq(stream, n + 1, Len(stream))]
              IN send(taken, Data(source, SubSeq(stream, 1, n)))

\* One iteration of the loop of send_reads on the stream of source: the
\* read returns n bytes, end of file, or an error.
send_reads_step(c, source, outcome, n) ==
    LET stream == IF source = "Stdout" THEN c.out ELSE c.err
        done == IF source = "Stdout" THEN [c EXCEPT !.t_out = "done"]
                ELSE [c EXCEPT !.t_err = "done"]
    IN CASE outcome = "err" -> send(done, Closed(source))
         [] outcome = "eof" -> send(done, Closed(source))
         [] OTHER ->
              LET taken == IF source = "Stdout"
                           THEN [c EXCEPT !.out = SubSeq(stream, n + 1, Len(stream))]
                           ELSE [c EXCEPT !.err = SubSeq(stream, n + 1, Len(stream))]
              IN send(taken, Data(source, SubSeq(stream, 1, n)))

\* The collector loop ending at the first Closed.
collect_step_ending_at_first_close(c) ==
    IF c.chan = <<>> THEN [c EXCEPT !.pc = "join_stdout"]
    ELSE LET ev == Head(c.chan)
         IN IF ev.tag = "Data"
            THEN [c EXCEPT !.chan = Tail(c.chan),
                           !.log = c.log \o ev.data,
                           !.stderr = IF ev.source = "Stderr" THEN c.stderr \o ev.data
                                      ELSE c.stderr]
            ELSE [c EXCEPT !.chan = Tail(c.chan), !.remaining = 0,
                           !.pc = "join_stdout"]

\* One iteration of the collector loop, with the loop test that follows:
\* receiver.recv() yields the next event, or an error when the channel is
\* empty and both senders are gone.
collect_step(c) ==
    IF c.chan = <<>> THEN [c EXCEPT !.pc = "join_stdout"]
    ELSE LET ev == Head(c.chan)
         IN IF ev.tag = "Data"
            THEN [c EXCEPT !.chan = Tail(c.chan),
                           !.log = c.log \o ev.data,
                           !.stderr = IF ev.source = "Stderr" THEN c.stderr \o ev.data
                                      ELSE c.stderr]
            ELSE [c EXCEPT !.chan = Tail(c.chan), !.remaining = c.remaining - 1,
                           !.pc = IF c.remaining - 1 > 0 THEN "collect"
                                  ELSE "join_stdout"]

\* child.wait() and the value run_command returns.
wait_step(c, wait_ok, success) ==
    IF ~wait_ok THEN [c EXCEPT !.pc = "returned", !.res = Err(CantWait)]
    ELSE [c EXCEPT !.pc = "returned",
                   !.res = Ok([success |-> success,
                               log |-> from_utf8_lossy(c.log),
                               stderr |-> from_utf8_lossy(c.stderr)])]

CommandFrame ==
    UNCHANGED <<store, mailbox, exec, reply, queue, handed, pipeline>>

\* cmd.spawn() and the start of the two reader threads.
Spawn ==
    /\ cmd.pc = "spawn"
    /\ \E ok \in BOOLEAN :
          cmd' = IF ok THEN [cmd EXCEPT !.pc = "collect", !.t_out = "reading",
                                        !.t_err = "reading"]
                 ELSE [cmd EXCEPT !.pc = "returned", !.res = Err(CantStart)]
    /\ CommandFrame

Min(a, b) == IF a < b THEN a ELSE b

ReadStdout ==
    /\ cmd.t_out = "reading"
    /\ \E outcome \in {"data", "eof", "err"} :
          IF outcome = "data"
          THEN \E n \in 1..Min(Len(cmd.out), BufferSize) :
                  cmd' = send_reads_step(cmd, "Stdout", outcome, n)
          ELSE /\ outcome = "eof" => cmd.out = <<>>
               /\ cmd' = send_reads_step(cmd, "Stdout", outcome, 0)
    /\ CommandFrame

ReadStderr ==
    /\ cmd.t_err = "reading"
    /\ \E outcome \in {"data", "eof", "err"} :
          IF outcome = "data"
          THEN \E n \in 1..Min(Len(cmd.err), BufferSize) :
                  cmd' = send_reads_step(cmd, "Stderr", outcome, n)
          ELSE /\ outcome = "eof" => cmd.err = <<>>
               /\ cmd' = send_reads_step(cmd, "Stderr", outcome, 0)
    /\ CommandFrame

Collect ==
    /\ cmd.pc = "collect"
    /\ \/ cmd.chan # <<>>
       \/ cmd.t_out = "done" /\ cmd.t_err = "done"
    /\ cmd' = collect_step(cmd)
    /\ CommandFrame

JoinStdout ==
    /\ cmd.pc = "join_stdout"
    /\ cmd.t_out = "done"
    /\ cmd' = [cmd EXCEPT !.pc = "join_stderr"]
    /\ CommandFrame

JoinStderr ==
    /\ cmd.pc = "join_stderr"
    /\ cmd.t_err = "done"
    /\ cmd' = [cmd EXCEPT !.pc = "wait"]
    /\ CommandFrame

Wait ==
    /\ cmd.pc = "wait"
    /\ \E wait_ok \in BOOLEAN, success \in BOOLEAN :
          cmd' = wait_step(cmd, wait_ok, success)
    /\ CommandFrame

RunInit ==
    /\ jobs = [j \in JobIds |-> PlainJob]
    /\ deps = {}
    /\ builds = [b \in BuildIds |-> CHOOSE r \in InitBuildRows :
                                       r.repo_state = RepoState_code("Verifying")]
    /\ InitExecutor
    /\ InitQueue
    /\ pipeline = NoPipeline
    /\ \E out \in ByteSeqs, err \in ByteSeqs : cmd = StartCommand(out, err)

RunNext ==
    \/ Spawn
    \/ ReadStdout
    \/ ReadStderr
    \/ Collect
    \/ JoinStdout
    \/ JoinStderr
    \/ Wait

SpecRun == RunInit /\ [][RunNext]_vars

\* The threads and the collector are scheduled, and a blocked read returns
\* once the child has written its output and closed the stream.
SpecRunFair ==
    /\ SpecRun
    /\ WF_vars(Spawn)
    /\ WF_vars(ReadStdout)
    /\ WF_vars(ReadStderr)
    /\ WF_vars(Collect)
    /\ WF_vars(JoinStdout)
    /\ WF_vars(JoinStderr)
    /\ WF_vars(Wait)

\* ------------------------------------------------------------ properties
Terminal == {JobStatus_Ended, JobStatus_Broken}
DependenciesOf(j) == {e[2] : e \in {d \in deps : d[1] = j}}
IsClaimed(j) == jobs[j].status = JobStatus_New /\ jobs'[j].status = JobStatus_Started

\* C1: the claim transaction never moves a job from New to Started while
\* one of its dependencies has a status strictly below Started.
C1_NoClaimBelowStarted ==
    [][\A j \in JobIds :
          IsClaimed(j) =>
             \A d \in DependenciesOf(j) : jobs[d].status >= JobStatus_Started]_vars

\* A job with a dependency has been claimed.
C1_Witness ==
    \E j \in JobIds :
       /\ jobs[j].status = JobStatus_Started
       /\ DependenciesOf(j) # {}

\* A New job whose every dependency is Started, Ended or Broken.
SpecEligible(j) ==
    /\ jobs[j].status = JobStatus_New
    /\ \A d \in DependenciesOf(j) : jobs[d].status >= JobStatus_Started

\* A New job whose every dependency is Ended or Broken.
Ready(j) ==
    /\ jobs[j].status = JobStatus_New
    /\ \A d \in DependenciesOf(j) : jobs[d].status \in Terminal

\* C2 as stated: whenever a New job exists whose every dependency is
\* Started, Ended or Broken, the claim query finds a job.
C2_Original ==
    (\E j \in JobIds : SpecEligible(j)) => NotFound \notin claim_query

\* C2 as amended: the claim query finds no row only if no New job exists
\* whose dependencies are all Ended or Broken; whenever such a job exists
\* the query returns one of these jobs.
C2_NoneOnlyIfNoFinishedDeps ==
    /\ NotFound \in claim_query => ~ \E j \in JobIds : Ready(j)
    /\ (\E j \in JobIds : Ready(j)) =>
          /\ claim_query # {}
          /\ \A j \in claim_query : j \in JobIds /\ Ready(j)

\* A request is about to run its claim query while a New job waits whose
\* dependency has finished.
C2_Witness ==
    /\ exec.st = "idle"
    /\ mailbox # <<>>
    /\ \E j \in JobIds : Ready(j) /\ DependenciesOf(j) # {}

\* C3: no job id is returned by the claim transaction twice, and a job
\* that has been handed out is no longer New.
C3_ClaimedOnce ==
    \A j \in JobIds :
       /\ handed[j] <= 1
       /\ handed[j] >= 1 => jobs[j].status # JobStatus_New /\ ~claimable(j)

\* Two requests outstanding at the same time have each received a job.
C3_Witness ==
    \E j, k \in JobIds :
       /\ j # k
       /\ handed[j] = 1
       /\ handed[k] = 1
       /\ exec.st = "claimed"
       /\ exec.job = k
       /\ reply # <<>>

\* C4: the status of a job moves only New -> Started -> {Ended, Broken};
\* results are empty while the status is New or Started, and are written
\* in the step that writes the terminal status.
C4_StatusMachine ==
    /\ [](\A j \in JobIds :
             (jobs[j].status \in {JobStatus_New, JobStatus_Started})
                <=> (jobs[j].results = NoResults))
    /\ [][\A j \in JobIds :
             /\ jobs'[j].status # jobs[j].status =>
                   \/ IsClaimed(j)
                   \/ /\ jobs[j].status = JobStatus_Started
                      /\ jobs'[j].status \in Terminal
                      /\ exec.st = "piped"
                      /\ exec.job = j
             /\ jobs'[j].results # jobs[j].results =>
                   /\ jobs[j].status = JobStatus_Started
                   /\ jobs'[j].status \in Terminal]_vars

\* One job has ended and another is broken.
C4_Witness ==
    \E j, k \in JobIds :
       /\ jobs[j].status = JobStatus_Ended
       /\ jobs[j].results # NoResults
       /\ jobs[k].status = JobStatus_Broken
       /\ jobs[k].results # NoResults

NumRequests(mb) == Cardinality({i \in 1..Len(mb) : mb[i] = ProcessOneJob})
ExecBusy == exec.st \in {"claimed", "piped"}
\* ProcessOneJob requests sent and not yet answered to the callback.
Requests == NumRequests(mailbox) + (IF ExecBusy THEN 1 ELSE 0) + Len(reply)

\* C5: at most one ProcessOneJob request is outstanding, and only while
\* processing_job is set; while busy no step other than the completion
\* callback adds a request, and a timer firing while busy sets jobs_queued
\* and sends nothing.
C5_SingleFlight ==
    /\ [](Requests <= 1 /\ (Requests = 1 => processing_job))
    /\ [][(processing_job /\ reply' = reply) =>
             NumRequests(mailbox') <= NumRequests(mailbox)]_vars
    /\ [][(processing_job /\ running /\ timers' < timers) =>
             (jobs_queued' /\ mailbox' = mailbox)]_vars

\* A trigger has been received while the executor works on a job.
C5_Witness ==
    /\ processing_job
    /\ jobs_queued
    /\ exec.st = "claimed"
    /\ NumRequests(mailbox) = 0

\* C6: the stop request completes only when the executor has stopped with
\* no request left in its mailbox or in progress; once running is false no
\* request is sent, running stays false and no trigger changes
\* jobs_queued, sets processing_job or schedules a timer.
C6_StopDrains ==
    /\ [](stop = "done" => (exec.st = "stopped" /\ NumRequests(mailbox) = 0))
    /\ [][~running =>
             /\ NumRequests(mailbox') <= NumRequests(mailbox)
             /\ ~running'
             /\ jobs_queued' = jobs_queued
             /\ timers' <= timers
             /\ (processing_job' => processing_job)]_vars

\* The stop request, issued while busy, has completed before the callback
\* of the request that was in flight has run.
C6_Witness ==
    /\ stop = "done"
    /\ processing_job
    /\ reply # <<>>
    /\ \E j \in JobIds : jobs[j].status \in Terminal

\* C7 as stated: once running is false no job is claimed.
C7_NoClaimAfterStop ==
    [][~running => \A j \in JobIds : ~IsClaimed(j)]_vars

\* C8: when the callback runs while running and a trigger was queued or
\* the executor processed a job, it sends exactly one new request at once,
\* clears jobs_queued and schedules no timer.
C8_Retrigger ==
    [][(reply # <<>> /\ reply' = Tail(reply) /\ running
          /\ (jobs_queued \/ Head(reply) = "true")) =>
             /\ mailbox' = Append(mailbox, ProcessOneJob)
             /\ processing_job'
             /\ ~jobs_queued'
             /\ timers' = timers]_vars

\* The executor has found no job while a trigger was queued: the callback
\* is about to run.
C8_Witness ==
    /\ running
    /\ jobs_queued
    /\ reply = <<"false">>

BuildOf(j) == from_value(jobs[j].contents).build
KindOf(j) == JobKind_from_db(jobs[j].kind)
RepoTag(b) == RepoState_from_db(builds[b].repo_state, builds[b].repo_state_reason).tag
PublishedTag(b) ==
    PublishedState_from_db(builds[b].published_state,
                           builds[b].published_state_reason).tag

\* C9: a build row changes only in the build transaction of a commit job
\* naming it while its repo_state is Verifying (the published columns stay)
\* or of a publish job naming it while its published_state is Publishing
\* (the repo columns stay); otherwise the row is left as it was.
C9_CompareAndSwap ==
    [][\A b \in BuildIds :
          builds'[b] # builds[b] =>
             /\ exec.st = "piped"
             /\ ~exec.pipe.early
             /\ BuildOf(exec.job) = b
             /\ \/ /\ KindOf(exec.job) = "Commit"
                   /\ RepoTag(b) = "Verifying"
                   /\ builds'[b].published_state = builds[b].published_state
                   /\ builds'[b].published_state_reason = builds[b].published_state_reason
                \/ /\ KindOf(exec.job) = "Publish"
                   /\ PublishedTag(b) = "Publishing"
                   /\ builds'[b].repo_state = builds[b].repo_state
                   /\ builds'[b].repo_state_reason = builds[b].repo_state_reason]_vars

\* A commit job has moved its build from Verifying to Ready and the
\* transaction of another job has been rolled back.
C9_Witness ==
    /\ \E b \in BuildIds :
          /\ builds[b].repo_state = RepoState_code("Ready")
          /\ builds[b].published_state = PublishedState_code("Unpublished")
    /\ \E j \in JobIds : jobs[j].results = RollbackTransaction

\* The executor is about to run the build transaction of a job whose build
\* is not in the expected in-progress state.
PreconditionViolated ==
    /\ exec.st = "piped"
    /\ ~exec.pipe.early
    /\ \/ KindOf(exec.job) = "Commit" /\ RepoTag(BuildOf(exec.job)) # "Verifying"
       \/ KindOf(exec.job) = "Publish" /\ PublishedTag(BuildOf(exec.job)) # "Publishing"

\* C10 as stated: with the precondition violated, a job whose row is
\* written (and whose transaction met no database error) ends with the
\* outcome of its pipeline.
C10_Original ==
    [][(PreconditionViolated /\ exec' = Idle
          /\ jobs'[exec.job] # jobs[exec.job]
          /\ jobs'[exec.job].results # DbError) =>
             /\ jobs'[exec.job].status =
                   (IF exec.pipe.res.ok THEN JobStatus_Ended ELSE JobStatus_Broken)
             /\ jobs'[exec.job].results = exec.pipe.res.val]_vars

\* C10 as amended: with the precondition violated the build rows stay as
\* they were and the job, if its row is written, ends Broken with the error
\* of the transaction, whatever its pipeline returned.
C10_RollbackBreaksJob ==
    [][(PreconditionViolated /\ exec' = Idle) =>
          /\ builds' = builds
          /\ \/ jobs' = jobs
             \/ /\ jobs'[exec.job].status = JobStatus_Broken
                /\ jobs'[exec.job].results \in {RollbackTransaction, DbError}]_vars

\* A job whose pipeline ran is Broken with the rollback as its results.
C10_Witness ==
    \E j \in JobIds :
       /\ jobs[j].status = JobStatus_Broken
       /\ jobs[j].results = RollbackTransaction
       /\ exec.st = "idle"

\* The job the executor holds has an unresolved kind, or contents that do
\* not decode into the payload of its kind.
Undecodable(j) ==
    \/ KindOf(j) = "None"
    \/ ~from_value(jobs[j].contents).ok
ParseMessage(j) ==
    CASE KindOf(j) = "None" -> "Unknown job type"
      [] KindOf(j) = "Commit" -> "Can't parse commit job"
      [] OTHER -> "Can't parse publish job"

\* C11: for a claimed job with an unresolved kind or undecodable contents
\* handle_job returns before any pipeline with the message of its case
\* ("Unknown job type" or a parse error); the final update, when it is
\* written, sets the job Broken with that message; no build row changes,
\* the call replies true and the executor is idle again for later calls.
C11_UndecodableBroken ==
    /\ [][(exec.st = "claimed" /\ Undecodable(exec.job)) =>
             exec' = Piped(exec.job,
                           [early |-> TRUE, res |-> Err(ParseMessage(exec.job))])]_vars
    /\ [][(exec.st = "piped" /\ Undecodable(exec.job)) =>
             /\ builds' = builds
             /\ exec' = Idle
             /\ reply' = Append(reply, "true")
             /\ \/ jobs' = jobs
                \/ jobs' = [jobs EXCEPT ![exec.job].status = JobStatus_Broken,
                                        ![exec.job].results = ParseMessage(exec.job)]]_vars

\* A job of unknown kind is Broken with "Unknown job type" and the executor
\* has since claimed the next job.
C11_Witness ==
    \E j, k \in JobIds :
       /\ jobs[j].kind = KindOther
       /\ jobs[j].status = JobStatus_Broken
       /\ jobs[j].results = "Unknown job type"
       /\ exec.st = "claimed"
       /\ exec.job = k

\* Step k of the commit pipeline is a build-commit-from or a rev-parse of a
\* ref that did not succeed.
FailedRefStep(k) ==
    /\ pipeline.kind = "Commit"
    /\ pipeline.steps[k].cmd \in {"build-commit-from", "rev-parse"}
    /\ pipeline.steps[k].out # "ok"
RepoTagAfter(b) ==
    RepoState_from_db(builds'[b].repo_state, builds'[b].repo_state_reason).tag
NamesRef(reason, name) ==
    reason \in {commit_failed(name), cant_find_commit(name)}

\* What C12 says of every failure alike: after a failed step for the ref
\* at position i no further command is attempted (no build-commit-from of
\* a later ref, no build-update-repo, no removal of the upload directory),
\* the handler is at or past its build-state transaction, the upload
\* directory exists, and the commits and files of the refs before i stay.
ShortCircuit ==
    /\ [](\A k \in 1..Len(pipeline.steps) :
             FailedRefStep(k) =>
                /\ k = Len(pipeline.steps)
                /\ pipeline.pc \in {"state_tx", "returned"}
                /\ pipeline.upload
                /\ \A q \in 1..(pipeline.steps[k].at - 1) :
                      /\ pipeline.refs[q] \in DOMAIN pipeline.repo
                      /\ pipeline.refs[q] \in DOMAIN pipeline.commits)
    /\ [][/\ \A n \in DOMAIN pipeline.repo :
                /\ n \in DOMAIN pipeline'.repo
                /\ pipeline'.repo[n] >= pipeline.repo[n]
          /\ pipeline.files \subseteq pipeline'.files]_vars

\* C12 as stated: short-circuit, and whenever the step of a ref failed, the
\* transaction on a Verifying build, if it writes, writes Failed with a
\* reason naming that ref.
C12_Original ==
    /\ ShortCircuit
    /\ [][(/\ pipeline.pc = "state_tx"
           /\ Len(pipeline.steps) > 0
           /\ FailedRefStep(Len(pipeline.steps))
           /\ RepoTag(pipeline.build) = "Verifying"
           /\ builds' # builds) =>
             /\ RepoTagAfter(pipeline.build) = "Failed"
             /\ NamesRef(builds'[pipeline.build].repo_state_reason,
                         pipeline.steps[Len(pipeline.steps)].ref)]_vars

\* C12 as amended: short-circuit as stated; the reason written names the
\* ref when build-commit-from exited unsuccessfully or the commit id could
\* not be resolved, and is the error of run_command when the command could
\* not be started or waited for.
C12_ShortCircuitReason ==
    /\ ShortCircuit
    /\ [][(/\ pipeline.pc = "state_tx"
           /\ Len(pipeline.steps) > 0
           /\ FailedRefStep(Len(pipeline.steps))
           /\ RepoTag(pipeline.build) = "Verifying"
           /\ builds' # builds) =>
             LET last == pipeline.steps[Len(pipeline.steps)]
                 reason == builds'[pipeline.build].repo_state_reason
             IN /\ RepoTagAfter(pipeline.build) = "Failed"
                /\ last.out = "nonzero" => NamesRef(reason, last.ref)
                /\ last.out \in {"start_err", "wait_err"} =>
                      reason = run_error(last.out)]_vars

\* The second ref of a build failed after the first was committed, and the
\* build is Failed.
C12_Witness ==
    /\ pipeline.pc = "returned"
    /\ pipeline.kind = "Commit"
    /\ Len(pipeline.steps) >= 3
    /\ pipeline.steps[Len(pipeline.steps)].at = 2
    /\ pipeline.steps[Len(pipeline.steps)].out = "nonzero"
    /\ pipeline.refs[1] \in DOMAIN pipeline.repo
    /\ pipeline.upload
    /\ RepoTag(pipeline.build) = "Failed"

\* C13: a step claims at most one job, only by an idle executor taking a
\* ProcessOneJob request, and the executor then holds that job; the reply
\* true is given exactly when the executor returns from handle_job on a
\* claimed job; a reply false or an error is given by an executor that
\* claimed nothing and changes no job and no build row; with no claimable
\* job a request is answered without any change of the store.
C13_OneJobPerCall ==
    /\ [][\A j \in JobIds :
             IsClaimed(j) =>
                /\ exec.st = "idle"
                /\ mailbox # <<>> /\ Head(mailbox) = ProcessOneJob
                /\ mailbox' = Tail(mailbox)
                /\ exec' = Claimed(j)
                /\ reply' = reply
                /\ \A k \in JobIds \ {j} : jobs'[k] = jobs[k]]_vars
    /\ [][(Len(reply') > Len(reply)) =>
             LET r == reply'[Len(reply')]
             IN /\ r = "true" <=> exec.st = "piped"
                /\ r = "true" => (exec' = Idle /\ jobs[exec.job].status = JobStatus_Started)
                /\ r # "true" => (exec.st = "idle" /\ exec' = Idle /\ store' = store)]_vars
    /\ [][(exec.st = "piped" /\ exec' # exec) =>
             reply' = Append(reply, "true")]_vars
    /\ [][(exec.st = "idle" /\ mailbox' # mailbox /\ claim_query = {NotFound}
             /\ mailbox # <<>> /\ Head(mailbox) = ProcessOneJob /\ mailbox' = Tail(mailbox)) =>
             (store' = store /\ reply' # reply /\ reply'[Len(reply')] # "true")]_vars

\* Every job has been processed and a further call has returned false.
C13_Witness ==
    /\ reply = <<"false">>
    /\ claim_query = {NotFound}
    /\ \A j \in JobIds : jobs[j].status \in Terminal

Step(c, name, i) == [cmd |-> c, ref |-> name, at |-> i, out |-> "ok"]
\* The commands of a commit pipeline over refs that ran to its end.
ExpectedSteps(refs) ==
    [k \in 1..(2 * Len(refs) + 2) |->
        IF k = 2 * Len(refs) + 1 THEN Step("build-update-repo", "", Len(refs) + 1)
        ELSE IF k = 2 * Len(refs) + 2 THEN Step("remove-upload", "", Len(refs) + 1)
        ELSE IF k % 2 = 1 THEN Step("build-commit-from", refs[(k + 1) \div 2], (k + 1) \div 2)
        ELSE Step("rev-parse", refs[k \div 2], k \div 2)]
CommitSucceeded ==
    /\ pipeline.kind = "Commit"
    /\ pipeline.pc \in {"state_tx", "returned"}
    /\ pipeline.fail = "none"

\* C14: when do_commit_build_refs returns Ok the commands run were, in
\* order, build-commit-from and rev-parse for each ref in list order, then
\* build-update-repo once, then the removal of the upload directory; the
\* removal is attempted only right after a successful build-update-repo;
\* commits maps every ref name of the build to the id of its commit in the
\* build repo; and the transaction on a Verifying build, if it writes,
\* writes Ready.
C14_CommitOrder ==
    /\ [](CommitSucceeded =>
             /\ pipeline.steps = ExpectedSteps(pipeline.refs)
             /\ ~pipeline.upload
             /\ DOMAIN pipeline.commits = {pipeline.refs[q] : q \in 1..Len(pipeline.refs)}
             /\ \A n \in DOMAIN pipeline.commits :
                   /\ n \in DOMAIN pipeline.repo
                   /\ pipeline.commits[n] = pipeline.repo[n])
    /\ [](pipeline.kind = "Commit" =>
             \A k \in 1..Len(pipeline.steps) :
                pipeline.steps[k].cmd = "remove-upload" =>
                   /\ k > 1
                   /\ pipeline.steps[k - 1].cmd = "build-update-repo"
                   /\ pipeline.steps[k - 1].out = "ok")
    /\ [][(/\ pipeline.pc = "state_tx"
           /\ CommitSucceeded
           /\ RepoTag(pipeline.build) = "Verifying"
           /\ builds' # builds) =>
             /\ RepoTagAfter(pipeline.build) = "Ready"
             /\ pipeline'.res = Ok("refs")]_vars

\* A build of two refs has been committed and is Ready.
C14_Witness ==
    /\ pipeline.pc = "returned"
    /\ pipeline.kind = "Commit"
    /\ pipeline.res.ok
    /\ Len(pipeline.refs) = 2
    /\ pipeline.refs[1] # pipeline.refs[2]
    /\ ~pipeline.upload
    /\ RepoTag(pipeline.build) = "Ready"

PublishedTagAfter(b) ==
    PublishedState_from_db(builds'[b].published_state,
                           builds'[b].published_state_reason).tag
BothPublishStepsOk ==
    /\ Len(pipeline.steps) = 2
    /\ pipeline.steps[1].out = "ok"
    /\ pipeline.steps[2].out = "ok"

\* C15: in the publish pipeline build-update-repo --generate-static-deltas
\* is run only as the second command, after a successful build-commit-from;
\* a command that did not succeed is the last one run and the pipeline has
\* returned its error; and the transaction on a Publishing build, if it
\* writes, writes Published exactly when both commands succeeded and
\* Failed with a non-empty reason otherwise.
C15_PublishOrder ==
    /\ [](pipeline.kind = "Publish" =>
             \A k \in 1..Len(pipeline.steps) :
                /\ pipeline.steps[k].cmd = "build-update-repo --generate-static-deltas" =>
                      /\ k = 2
                      /\ pipeline.steps[1].cmd = "build-commit-from"
                      /\ pipeline.steps[1].out = "ok"
                /\ pipeline.steps[k].out # "ok" =>
                      /\ k = Len(pipeline.steps)
                      /\ pipeline.pc \in {"state_tx", "returned"}
                      /\ pipeline.fail # "none")
    /\ [][(/\ pipeline.pc = "state_tx"
           /\ pipeline.kind = "Publish"
           /\ PublishedTag(pipeline.build) = "Publishing"
           /\ builds' # builds) =>
             /\ BothPublishStepsOk <=> PublishedTagAfter(pipeline.build) = "Published"
             /\ ~BothPublishStepsOk =>
                   /\ PublishedTagAfter(pipeline.build) = "Failed"
                   /\ builds'[pipeline.build].published_state_reason \notin {NoReason, ""}]_vars

\* The import succeeded, the summary regeneration did not, and the build
\* is Failed.
C15_Witness ==
    /\ pipeline.pc = "returned"
    /\ pipeline.kind = "Publish"
    /\ Len(pipeline.steps) = 2
    /\ pipeline.steps[1].out = "ok"
    /\ pipeline.steps[2].out = "nonzero"
    /\ PublishedTag(pipeline.build) = "Failed"

\* The events received by the collector so far.
Received == SubSeq(cmd.sent, 1, Len(cmd.sent) - Len(cmd.chan))
EventsOf(events, source) == SelectSeq(events, LAMBDA ev : ev.source = source)
RECURSIVE Concat(_)
Concat(events) ==
    IF events = <<>> THEN <<>> ELSE Head(events).data \o Concat(Tail(events))
ClosedSeen(source) ==
    \E k \in 1..Len(Received) : Received[k] = Closed(source)
Spawned == cmd.t_out # "none"
Returned == cmd.pc = "returned" /\ Spawned /\ cmd.res.ok

\* What C16 says of the threads and the byte buffers: the collector loop
\* is left only when Closed has been received from both sources; past the
\* joins both reader threads have finished; on return the channel is empty,
\* the log buffer is the concatenation of the data of all events in the
\* order they were sent, the stderr buffer that of the Stderr events, and
\* the data sent by each reader is what it read from its stream, in order.
Collected ==
    /\ (Spawned /\ cmd.pc # "collect") => (ClosedSeen("Stdout") /\ ClosedSeen("Stderr"))
    /\ cmd.pc \in {"join_stderr", "wait"} => cmd.t_out = "done"
    /\ (cmd.pc = "wait" \/ (cmd.pc = "returned" /\ Spawned)) =>
          /\ cmd.t_out = "done" /\ cmd.t_err = "done"
          /\ cmd.chan = <<>>
          /\ cmd.log = Concat(cmd.sent)
          /\ cmd.stderr = Concat(EventsOf(cmd.sent, "Stderr"))
    /\ cmd.wrote_out = Concat(EventsOf(cmd.sent, "Stdout")) \o cmd.out
    /\ cmd.wrote_err = Concat(EventsOf(cmd.sent, "Stderr")) \o cmd.err

\* C16 as stated: as above, and the log and the stderr output returned are
\* byte for byte those concatenations.
C16_Original ==
    /\ Collected
    /\ Returned =>
          /\ as_bytes(cmd.res.val.log) = Concat(cmd.sent)
          /\ as_bytes(cmd.res.val.stderr) = Concat(EventsOf(cmd.sent, "Stderr"))

\* C16 as amended: as above for the byte buffers; the log and the stderr
\* output returned are the lossy UTF-8 decodings of those concatenations,
\* and are byte for byte equal to them when they hold no invalid byte.
C16_CollectedLossy ==
    /\ Collected
    /\ Returned =>
          /\ cmd.res.val.log = from_utf8_lossy(Concat(cmd.sent))
          /\ cmd.res.val.stderr = from_utf8_lossy(Concat(EventsOf(cmd.sent, "Stderr")))
          /\ (\A k \in 1..Len(cmd.log) : cmd.log[k] # "FF") =>
                as_bytes(cmd.res.val.log) = Concat(cmd.sent)
          /\ (\A k \in 1..Len(cmd.stderr) : cmd.stderr[k] # "FF") =>
                as_bytes(cmd.res.val.stderr) = Concat(EventsOf(cmd.sent, "Stderr"))

\* run_command has returned a log in which a stderr chunk lies between two
\* stdout chunks.
C16_Witness ==
    /\ Returned
    /\ Len(cmd.sent) >= 5
    /\ \E i, j, k \in 1..Len(cmd.sent) :
          /\ i < j /\ j < k
          /\ cmd.sent[i].tag = "Data" /\ cmd.sent[i].source = "Stdout"
          /\ cmd.sent[j].tag = "Data" /\ cmd.sent[j].source = "Stderr"
          /\ cmd.sent[k].tag = "Data" /\ cmd.sent[k].source = "Stdout"
    /\ Len(cmd.res.val.log) = 3

ThreadOf(source) == IF source = "Stdout" THEN cmd.t_out ELSE cmd.t_err
\* The events of a reader are Data events, followed by one Closed exactly
\* when the reader has ended.
OneClosedLast(source) ==
    LET evs == EventsOf(cmd.sent, source)
    IN /\ \A k \in 1..(Len(evs) - 1) : evs[k].tag = "Data"
       /\ ThreadOf(source) = "done" => (Len(evs) >= 1 /\ evs[Len(evs)] = Closed(source))
       /\ ThreadOf(source) # "done" => \A k \in 1..Len(evs) : evs[k].tag = "Data"

\* C17: each reader sends exactly one Closed, as its last event, whether
\* its read ended by end of file or by an error; the collector leaves its
\* loop with remaining = 0; run_command returns; and the value it returns
\* after a successful spawn is Ok unless child.wait() failed.
C17_ReadErrorCloses ==
    /\ [](OneClosedLast("Stdout") /\ OneClosedLast("Stderr"))
    /\ []((Spawned /\ cmd.pc # "collect") => cmd.remaining = 0)
    /\ []((cmd.pc = "returned" /\ Spawned /\ ~cmd.res.ok) => cmd.res.val = CantWait)
    /\ <>(cmd.pc = "returned")

\* run_command has returned Ok although the read of stdout failed before
\* all of the child's output was read.
C17_Witness ==
    /\ Returned
    /\ cmd.out # <<>>
    /\ cmd.t_out = "done"

\* C18 as stated: every job set to Started eventually reaches a terminal
\* status, whatever error the processing met.
C18_StartedReachesTerminal ==
    \A j \in JobIds :
        (jobs[j].status = JobStatus_Started) ~> (jobs[j].status \in Terminal)

\* C19: the JobQueue sends a request when it starts, and schedules a
\* fallback timer after every call that processed no job while no trigger
\* was queued; so, as long as the JobQueue is not stopped, every New job
\* without an unfinished dependency is eventually claimed, triggers or not,
\* and the executor is called again and again.
C19_MissedTriggerResilience ==
    /\ [][(~started /\ started') =>
             mailbox' = Append(mailbox, ProcessOneJob)]_vars
    /\ [][(reply # <<>> /\ reply' = Tail(reply) /\ running
             /\ ~jobs_queued /\ Head(reply) # "true") =>
             (timers' = timers + 1 /\ mailbox' = mailbox)]_vars
    /\ \A j \in JobIds :
          [](claimable(j) => <>(jobs[j].status # JobStatus_New \/ ~running))
    /\ (<>(~running) \/ []<><<ExecProcessOneJob>>_vars)

\* A New job without unfinished dependency, no request under way, no
\* trigger queued, the JobQueue running: only the fallback timer, which is
\* scheduled, will have it claimed.
C19_Witness ==
    /\ running
    /\ started
    /\ ~processing_job
    /\ ~jobs_queued
    /\ mailbox = <<>>
    /\ reply = <<>>
    /\ timers > 0
    /\ \E j \in JobIds : claimable(j)

\* C20 as stated: when the job of a build in its in-progress state has
\* ended, the build has left that state: a commit job Ended leaves the
\* build Ready and Broken leaves it Failed with a reason; a publish job
\* Ended leaves it Published and Broken leaves it Failed with a reason.
C20_BuildLeavesInProgress ==
    [][(exec.st = "piped" /\ exec' = Idle
          /\ from_value(jobs[exec.job].contents).ok
          /\ jobs'[exec.job].status \in Terminal) =>
          LET j == exec.job
              b == BuildOf(j)
              ended == jobs'[j].status = JobStatus_Ended
          IN /\ (KindOf(j) = "Commit" /\ RepoTag(b) = "Verifying") =>
                   IF ended
                   THEN builds'[b].repo_state = RepoState_code("Ready")
                   ELSE /\ builds'[b].repo_state = RepoState_code("Failed")
                        /\ builds'[b].repo_state_reason # NoReason
             /\ (KindOf(j) = "Publish" /\ PublishedTag(b) = "Publishing") =>
                   IF ended
                   THEN builds'[b].published_state = PublishedState_code("Published")
                   ELSE /\ builds'[b].published_state = PublishedState_code("Failed")
                        /\ builds'[b].published_state_reason # NoReason]_vars

\* C21 as stated: at any time at most one run_later closure of the
\* JobQueue is scheduled and has not fired.
C21_AtMostOneTimer == timers <= 1

\* The state columns of a build row, by pair.
RepoColumns(row) == <<row.repo_state, row.repo_state_reason>>
PublishedColumns(row) == <<row.published_state, row.published_state_reason>>
RepoTagOf(row) == RepoState_from_db(row.repo_state, row.repo_state_reason).tag
PublishedTagOf(row) ==
    PublishedState_from_db(row.published_state, row.published_state_reason).tag

\* C22: the repo columns of a build change only from Verifying to Ready or
\* Failed, and only by a commit job whose payload names that build; the
\* published columns change only from Publishing to Published or Failed,
\* and only by a publish job whose payload names that build; no step
\* changes both pairs, and a row whose state is Ready, Published or Failed
\* keeps that pair of columns.
C22_BuildStateFrame ==
    [][\A b \in BuildIds :
          /\ RepoColumns(builds'[b]) # RepoColumns(builds[b]) =>
                /\ RepoTagOf(builds[b]) = "Verifying"
                /\ RepoTagOf(builds'[b]) \in {"Ready", "Failed"}
                /\ KindOf(exec.job) = "Commit"
                /\ from_value(jobs[exec.job].contents) = [ok |-> TRUE, build |-> b]
                /\ PublishedColumns(builds'[b]) = PublishedColumns(builds[b])
          /\ PublishedColumns(builds'[b]) # PublishedColumns(builds[b]) =>
                /\ PublishedTagOf(builds[b]) = "Publishing"
                /\ PublishedTagOf(builds'[b]) \in {"Published", "Failed"}
                /\ KindOf(exec.job) = "Publish"
                /\ from_value(jobs[exec.job].contents) = [ok |-> TRUE, build |-> b]
                /\ RepoColumns(builds'[b]) = RepoColumns(builds[b])
          /\ RepoTagOf(builds[b]) \in {"Ready", "Failed"} =>
                RepoColumns(builds'[b]) = RepoColumns(builds[b])
          /\ PublishedTagOf(builds[b]) \in {"Published", "Failed"} =>
                PublishedColumns(builds'[b]) = PublishedColumns(builds[b])]_vars

\* A commit job has failed one build and a publish job has published
\* another: the first is still Unpublished and the second still Ready.
C22_Witness ==
    \E b1 \in BuildIds, b2 \in BuildIds :
       /\ b1 # b2
       /\ RepoTagOf(builds[b1]) = "Failed"
       /\ builds[b1].repo_state_reason # NoReason
       /\ PublishedTagOf(builds[b1]) = "Unpublished"
       /\ RepoTagOf(builds[b2]) = "Ready"
       /\ PublishedTagOf(builds[b2]) = "Published"
       /\ exec.st = "idle"
====
